---- MODULE Spec2Model ----
(***************************************************************************)
(* Model of net-mac-address-lookup (src/main.py): the MAC address          *)
(* validator is_valid_mac_address, the vendor resolver lookup_mac_vendor   *)
(* and the command-line driver main.                                       *)
(*                                                                         *)
(* Strings are sequences of one-character strings, so that strip, split,   *)
(* len, join and the substring test are computed as Python computes them.  *)
(* A run of main starts from a parsed command line (args.mac_address,      *)
(* args.verbose): what argparse does with a command line it rejects, or    *)
(* with -h, happens inside parse_args and is outside this model.  The      *)
(* vendor service is an input of the run: it either fails at transport     *)
(* level or answers with a status code and a body.                         *)
(***************************************************************************)
EXTENDS Integers, Sequences, FiniteSets, TLC

(***************************************************************************)
(* Bounds of the model.                                                    *)
(***************************************************************************)
\* most colon-separated parts of a string handed to the validator
MaxParts == 7
\* most whitespace characters put on each side of an address argument
MaxPad == 1

(***************************************************************************)
(* Python str operations.                                                  *)
(***************************************************************************)
Whitespace == {" ", "\t", "\n"}

Digits == {"0", "1", "2", "3", "4", "5", "6", "7", "8", "9"}

\* the literal '0123456789abcdefABCDEF' of the validator
HexChars == Digits \cup {"a", "b", "c", "d", "e", "f", "A", "B", "C", "D", "E", "F"}

RECURSIVE LStrip(_)
LStrip(s) == IF s # <<>> /\ Head(s) \in Whitespace THEN LStrip(Tail(s)) ELSE s

RECURSIVE RStrip(_)
RStrip(s) ==
  IF s # <<>> /\ s[Len(s)] \in Whitespace THEN RStrip(SubSeq(s, 1, Len(s) - 1)) ELSE s

\* str.strip()
Strip(s) == RStrip(LStrip(s))

\* str.split(sep) for a one-character separator: every separator cuts, empty
\* parts are kept, and the empty string gives one empty part
RECURSIVE SplitFrom(_, _, _)
SplitFrom(s, sep, cur) ==
  IF s = <<>> THEN <<cur>>
  ELSE IF Head(s) = sep THEN <<cur>> \o SplitFrom(Tail(s), sep, <<>>)
  ELSE SplitFrom(Tail(s), sep, Append(cur, Head(s)))

Split(s, sep) == SplitFrom(s, sep, <<>>)

\* sep.join(parts)
RECURSIVE Join(_, _)
Join(parts, sep) ==
  IF parts = <<>> THEN <<>>
  ELSE IF Len(parts) = 1 THEN parts[1]
  ELSE parts[1] \o <<sep>> \o Join(Tail(parts), sep)

\* needle in haystack, for two strings: the substring test
Contains(hay, needle) ==
  \E i \in 0..(Len(hay) - Len(needle)) : SubSeq(hay, i + 1, i + Len(needle)) = needle

(***************************************************************************)
(* socket.inet_aton: the C library's inet_aton on the text up to the first *)
(* whitespace character: one to four parts separated by '.', each a        *)
(* non-empty run of decimal digits.  Anything else raises OSError (which   *)
(* socket.error names).  The other number bases and the range of each      *)
(* part, which the argument of line 39 does not involve, are left out.     *)
(***************************************************************************)
RECURSIVE UntilWhitespace(_)
UntilWhitespace(s) ==
  IF s = <<>> \/ Head(s) \in Whitespace THEN <<>>
  ELSE <<Head(s)>> \o UntilWhitespace(Tail(s))

InetAtonAccepts(s) ==
  LET parts == Split(UntilWhitespace(s), ".")
  IN /\ Len(parts) \in 1..4
     /\ \A i \in 1..Len(parts) :
          /\ parts[i] # <<>>
          /\ \A k \in 1..Len(parts[i]) : parts[i][k] \in Digits

\* ':'.join(['0'] * 6)
DummyStructure == Join([i \in 1..6 |-> <<"0">>], ":")

(***************************************************************************)
(* is_valid_mac_address                                                    *)
(***************************************************************************)
\* the checks of the try body after the dummy check
OctetChecks(mac_address) ==
  LET octets == Split(mac_address, ":")
  IN IF Len(octets) # 6 THEN FALSE
     ELSE \A i \in 1..Len(octets) :
            /\ Len(octets[i]) = 2
            /\ \A k \in 1..Len(octets[i]) : octets[i][k] \in HexChars

IsValidMacAddress(mac_address) ==
  IF ~InetAtonAccepts(DummyStructure)
  THEN FALSE                     \* except socket.error: return False
  ELSE OctetChecks(mac_address)

(***************************************************************************)
(* Logging: a record is emitted when its level reaches the root logger's   *)
(* level.                                                                  *)
(***************************************************************************)
DEBUG == 10
INFO == 20
WARNING == 30
ERROR == 40

\* mutant: the root logger is at DEBUG whether or not -v is given
RootLevelAlwaysDebug(verbose) == DEBUG

\* basicConfig(level=INFO); main's -v/--verbose sets the root logger to DEBUG
RootLevel(verbose) == IF verbose THEN DEBUG ELSE INFO

\* logging.<level>(message): fmt is the message text with its placeholder,
\* text the address or URL interpolated into it, exc the exception interpolated
\* into it
Log(threshold, level, fmt, text, exc) ==
  IF level >= threshold
  THEN << [kind |-> "log", level |-> level, fmt |-> fmt, text |-> text, exc |-> exc] >>
  ELSE << >>

(***************************************************************************)
(* JSON values as response.json() returns them.  JSON null is Python None. *)
(***************************************************************************)
JNull == [t |-> "null"]
JBool(b) == [t |-> "bool", b |-> b]
JNum(n) == [t |-> "num", n |-> n]
JStr(s) == [t |-> "str", s |-> s]
JList(items) == [t |-> "list", items |-> items]
\* keys: the keys in order; vals: the value of each key
JObj(keys, vals) == [t |-> "obj", keys |-> keys, vals |-> vals]

PyNone == JNull

RESULT == <<"r", "e", "s", "u", "l", "t">>
COMPANY == <<"c", "o", "m", "p", "a", "n", "y">>

\* bool(v)
Truthy(v) ==
  CASE v.t = "null" -> FALSE
    [] v.t = "bool" -> v.b
    [] v.t = "num" -> v.n # 0
    [] v.t = "str" -> v.s # <<>>
    [] v.t = "list" -> v.items # <<>>
    [] v.t = "obj" -> v.keys # <<>>

\* mutant: a membership test that answers False on a value that is not iterable
PyInLenient(key, v) ==
  CASE v.t = "obj" ->
         [raised |-> "", val |-> \E i \in 1..Len(v.keys) : v.keys[i] = key]
    [] v.t = "list" ->
         [raised |-> "", val |-> \E i \in 1..Len(v.items) : v.items[i] = JStr(key)]
    [] v.t = "str" -> [raised |-> "", val |-> Contains(v.s, key)]
    [] OTHER -> [raised |-> "", val |-> FALSE]

\* key in v: membership of a str key.  None, bool and int are not iterable.
PyIn(key, v) ==
  CASE v.t = "obj" ->
         [raised |-> "", val |-> \E i \in 1..Len(v.keys) : v.keys[i] = key]
    [] v.t = "list" ->
         [raised |-> "", val |-> \E i \in 1..Len(v.items) : v.items[i] = JStr(key)]
    [] v.t = "str" -> [raised |-> "", val |-> Contains(v.s, key)]
    [] OTHER -> [raised |-> "TypeError", val |-> FALSE]

\* v[key] for a str key: a dict gives the value, a list or str takes integer
\* indices only, the others are not subscriptable
PyGetItem(v, key) ==
  IF v.t = "obj"
  THEN IF \E i \in 1..Len(v.keys) : v.keys[i] = key
       THEN [raised |-> "",
             val |-> v.vals[CHOOSE i \in 1..Len(v.keys) : v.keys[i] = key]]
       ELSE [raised |-> "KeyError", val |-> PyNone]
  ELSE [raised |-> "TypeError", val |-> PyNone]

DigitChar == <<"0", "1", "2", "3", "4", "5", "6", "7", "8", "9">>

RECURSIVE NatStr(_)
NatStr(n) ==
  IF n < 10 THEN <<DigitChar[n + 1]>>
  ELSE NatStr(n \div 10) \o <<DigitChar[(n % 10) + 1]>>

\* str(v) as the f-string of main formats it; of the containers only the empty
\* ones are company values of this model
PyStr(v) ==
  CASE v.t = "str" -> v.s
    [] v.t = "num" -> NatStr(v.n)
    [] v.t = "bool" -> IF v.b THEN <<"T", "r", "u", "e">> ELSE <<"F", "a", "l", "s", "e">>
    [] v.t = "null" -> <<"N", "o", "n", "e">>
    [] v.t = "list" /\ v.items = <<>> -> <<"[", "]">>
    [] v.t = "obj" /\ v.keys = <<>> -> <<"{", "}">>

(***************************************************************************)
(* Exceptions, by class name.  requests.JSONDecodeError (requests 2.27 and *)
(* later) is a RequestException and a ValueError; before that              *)
(* response.json() raised json.JSONDecodeError, a ValueError only.         *)
(***************************************************************************)
IsRequestException(exc) ==
  exc \in {"ConnectionError", "HTTPError", "requests.JSONDecodeError"}

IsValueError(exc) == exc \in {"requests.JSONDecodeError", "json.JSONDecodeError"}

\* every class raised in the try body derives from Exception
IsException(exc) ==
  exc \in {"ConnectionError", "HTTPError", "requests.JSONDecodeError",
           "json.JSONDecodeError", "TypeError", "KeyError"}

\* mutant: every status that is not 2xx raises
RaiseForStatusNon2xx(status) == status < 200 \/ status >= 300

\* response.raise_for_status(): HTTPError for a 4xx or 5xx status
RaiseForStatus(status) == 400 <= status /\ status < 600

(***************************************************************************)
(* lookup_mac_vendor                                                       *)
(***************************************************************************)
MAC_VENDOR_API_URL_PREFIX == <<"h", "t", "t", "p", "s", ":", "/", "/", "m", "a", "c", "v", "e", "n", "d", "o", "r", "s", ".", "c", "o", "/", "a", "p", "i", "/">>

\* MAC_VENDOR_API_URL.format(mac_address=mac_address)
FormatUrl(mac_address) == MAC_VENDOR_API_URL_PREFIX \o mac_address

\* the test and the subscripts of lines 73-77 on the parsed body, left to right
\* with short circuit: "return" with the company value, "notfound", or "raise"
ExtractCompany(data) ==
  IF ~Truthy(data) THEN [k |-> "notfound", val |-> PyNone, exc |-> ""]
  ELSE LET a == PyIn(RESULT, data)
       IN IF a.raised # "" THEN [k |-> "raise", val |-> PyNone, exc |-> a.raised]
          ELSE IF ~a.val THEN [k |-> "notfound", val |-> PyNone, exc |-> ""]
          ELSE LET r == PyGetItem(data, RESULT)
               IN IF r.raised # "" THEN [k |-> "raise", val |-> PyNone, exc |-> r.raised]
                  ELSE LET b == PyIn(COMPANY, r.val)
                       IN IF b.raised # ""
                          THEN [k |-> "raise", val |-> PyNone, exc |-> b.raised]
                          ELSE IF ~b.val
                          THEN [k |-> "notfound", val |-> PyNone, exc |-> ""]
                          ELSE LET c == PyGetItem(r.val, COMPANY)
                               IN IF c.raised # ""
                                  THEN [k |-> "raise", val |-> PyNone, exc |-> c.raised]
                                  ELSE [k |-> "return", val |-> c.val, exc |-> ""]

\* the try body after the debug line: requests.get, raise_for_status,
\* response.json() and the extraction
TryBody(svc) ==
  IF svc.kind = "transport_error"
  THEN [k |-> "raise", val |-> PyNone, exc |-> "ConnectionError"]
  ELSE IF RaiseForStatus(svc.status)
  THEN [k |-> "raise", val |-> PyNone, exc |-> "HTTPError"]
  ELSE IF ~svc.body.valid
  THEN [k |-> "raise", val |-> PyNone, exc |-> svc.body.decodeError]
  ELSE ExtractCompany(svc.body.data)

\* the except clauses in their order; the trace of the handler and whether the
\* exception leaves the function
Handlers(threshold, exc) ==
  IF IsRequestException(exc)
  THEN [raised |-> "",
        trace |-> Log(threshold, ERROR, "An error occurred during the request: {e}", <<>>, exc)]
  ELSE IF IsValueError(exc)
  THEN [raised |-> "",
        trace |-> Log(threshold, ERROR, "Failed to parse JSON response: {e}", <<>>, exc)]
  ELSE IF IsException(exc)
  THEN [raised |-> "",
        trace |-> Log(threshold, ERROR, "An unexpected error occurred: {e}", <<>>, exc)]
  ELSE [raised |-> exc, trace |-> << >>]

\* the whole function: what it returns (or the exception that leaves it) and
\* the log records and the request it emits, in order
LookupMacVendor(mac_address, svc, threshold) ==
  LET url == FormatUrl(mac_address)
      before == Log(threshold, DEBUG, "Sending request to {url}", url, "")
                  \o << [kind |-> "get", url |-> url] >>
      body == TryBody(svc)
  IN CASE body.k = "return" ->
            [ret |-> body.val, raised |-> "", trace |-> before]
       [] body.k = "notfound" ->
            [ret |-> PyNone, raised |-> "",
             trace |-> before \o Log(threshold, WARNING,
                          "Vendor information not found for MAC address: {mac_address}",
                          mac_address, "")]
       [] body.k = "raise" ->
            LET h == Handlers(threshold, body.exc)
            IN [ret |-> PyNone, raised |-> h.raised, trace |-> before \o h.trace]

(***************************************************************************)
(* main, from the parsed command line on.  The trace holds, in order, the  *)
(* emitted log records, the validator's verdict, the call of the resolver, *)
(* the request and the printed line.                                       *)
(***************************************************************************)
VendorPrefix == <<"V", "e", "n", "d", "o", "r", ":", " ">>
NotFoundLine == <<"V", "e", "n", "d", "o", "r", " ", "i", "n", "f", "o", "r", "m", "a", "t", "i", "o", "n", " ", "n", "o", "t", " ", "f", "o", "u", "n", "d", ".">>

\* lines 106-113: the info line, the resolver and the printed line; an
\* exception leaving the resolver would end the process with a traceback and
\* exit status 1
Accepted(start, mac_address, svc, threshold) ==
  LET lk == LookupMacVendor(mac_address, svc, threshold)
      upto == start
                \o Log(threshold, INFO, "Looking up vendor for MAC address: {mac_address}",
                       mac_address, "")
                \o << [kind |-> "lookup", mac |-> mac_address] >>
                \o lk.trace
  IN IF lk.raised # ""
     THEN [exit |-> 1, trace |-> upto \o << [kind |-> "traceback", exc |-> lk.raised] >>]
     ELSE IF Truthy(lk.ret)
     THEN [exit |-> 0,
           trace |-> upto \o << [kind |-> "print", line |-> VendorPrefix \o PyStr(lk.ret)] >>]
     ELSE [exit |-> 0, trace |-> upto \o << [kind |-> "print", line |-> NotFoundLine] >>]

\* mutant: the error line without the sys.exit(1), so that main goes on
RejectedFallsThrough(start, mac_address, svc, threshold) ==
  Accepted(start
             \o Log(threshold, ERROR,
                    "Invalid MAC address format. Please use the format XX:XX:XX:XX:XX:XX.",
                    <<>>, ""),
           mac_address, svc, threshold)

\* lines 103-104: the error line and sys.exit(1)
Rejected(start, mac_address, svc, threshold) ==
  [exit |-> 1,
   trace |-> start
               \o Log(threshold, ERROR,
                      "Invalid MAC address format. Please use the format XX:XX:XX:XX:XX:XX.",
                      <<>>, "")]

\* lines 96-113: main after parse_args
Main(raw, verbose, svc) ==
  LET threshold == RootLevel(verbose)
      enabled == IF verbose
                 THEN Log(threshold, DEBUG, "Verbose logging enabled.", <<>>, "")
                 ELSE << >>
      mac_address == Strip(raw)
      valid == IsValidMacAddress(mac_address)
      start == enabled \o << [kind |-> "validate", mac |-> mac_address, ok |-> valid] >>
  IN IF ~valid
     THEN Rejected(start, mac_address, svc, threshold)
     ELSE Accepted(start, mac_address, svc, threshold)

(***************************************************************************)
(* Inputs.                                                                 *)
(***************************************************************************)
MacUpper == <<"0", "0", ":", "1", "A", ":", "2", "B", ":", "3", "C", ":", "4", "D", ":", "5", "E">>
MacLower == <<"0", "0", ":", "1", "a", ":", "2", "b", ":", "3", "c", ":", "4", "d", ":", "5", "e">>
MacMixed == <<"a", "A", ":", "b", "B", ":", "c", "C", ":", "d", "D", ":", "e", "E", ":", "f", "F">>
NotAMac == <<"n", "o", "t", "-", "a", "-", "m", "a", "c">>
MacFive == <<"0", "0", ":", "1", "A", ":", "2", "B", ":", "3", "C", ":", "4", "D">>
MacSeven == <<"0", "0", ":", "1", "A", ":", "2", "B", ":", "3", "C", ":", "4", "D", ":", "5", "E", ":", "6", "F">>
MacNonHex == <<"0", "0", ":", "1", "A", ":", "2", "B", ":", "3", "C", ":", "4", "D", ":", "5", "G">>
MacInnerSpace == <<"0", "0", ":", "1", "A", ":", "2", "B", " ", ":", "3", "C", ":", "4", "D", ":", "5", "E">>

AddressBodies ==
  {MacUpper, MacLower, MacMixed, NotAMac, MacFive, MacSeven, MacNonHex, MacInnerSpace, <<>>}

PadChars == {" ", "\n"}

\* no padding, or up to MaxPad copies of one whitespace character
Pads == {<<>>} \cup {[i \in 1..k |-> w] : k \in 1..MaxPad, w \in PadChars}

\* the values of args.mac_address
MainArgs == {l \o b \o r : l \in Pads, b \in AddressBodies, r \in Pads}

\* the arguments of direct calls of the resolver
LookupArgs == {MacUpper, MacLower, NotAMac}

\* the arguments of direct calls of the validator: one to MaxParts parts joined
\* by colons
OctetPool ==
  {<<"0", "0">>, <<"a", "F">>, <<"g", "0">>, <<"0">>, <<"A", "1", "b">>}

ValidatorArgs ==
  {Join(parts, ":") : parts \in UNION {[1..n -> OctetPool] : n \in 1..MaxParts}}

ACME == <<"A", "c", "m", "e", " ", "C", "o", "r", "p">>
ERROR_KEY == <<"e", "r", "r", "o", "r">>

Scalars ==
  {JNull, JBool(TRUE), JBool(FALSE), JNum(0), JNum(5),
   JStr(<<>>), JStr(ACME), JStr(RESULT), JStr(COMPANY)}

CompanyValues == Scalars \cup {JList(<<>>), JObj(<<>>, <<>>)}

ResultValues ==
  Scalars
    \cup {JList(<<>>), JList(<<JStr(COMPANY)>>), JObj(<<>>, <<>>),
          JObj(<<ERROR_KEY>>, <<JStr(ACME)>>)}
    \cup {JObj(<<COMPANY>>, <<c>>) : c \in CompanyValues}

DataValues ==
  Scalars
    \cup {JList(<<>>), JList(<<JStr(RESULT)>>), JObj(<<>>, <<>>),
          JObj(<<ERROR_KEY>>, <<JStr(ACME)>>)}
    \cup {JObj(<<RESULT>>, <<r>>) : r \in ResultValues}

Bodies ==
  {[valid |-> TRUE, data |-> d, decodeError |-> ""] : d \in DataValues}
    \cup {[valid |-> FALSE, data |-> PyNone, decodeError |-> e] :
            e \in {"requests.JSONDecodeError", "json.JSONDecodeError"}}

Statuses == {100, 200, 201, 304, 404, 503}

Services ==
  {[kind |-> "transport_error"]}
    \cup {[kind |-> "response", status |-> s, body |-> b] : s \in Statuses, b \in Bodies}

(***************************************************************************)
(* State: the entry point that ran last, its inputs and its outcome.       *)
(***************************************************************************)
VARIABLES call, mac_arg, verbose, service, result

vars == <<call, mac_arg, verbose, service, result>>

Init ==
  /\ call = "none"
  /\ mac_arg = <<>>
  /\ verbose = FALSE
  /\ service = [kind |-> "none"]
  /\ result = [trace |-> << >>]

\* one run of the program: a process runs main once and keeps nothing for the
\* next invocation
RunMain ==
  /\ call = "none"
  /\ \E raw \in MainArgs, v \in BOOLEAN, svc \in Services :
       /\ call' = "main"
       /\ mac_arg' = raw
       /\ verbose' = v
       /\ service' = svc
       /\ result' = Main(raw, v, svc)

\* one call of the resolver, the root logger at the level main would set
CallLookupMacVendor ==
  /\ call = "none"
  /\ \E m \in LookupArgs, v \in BOOLEAN, svc \in Services :
       /\ call' = "lookup_mac_vendor"
       /\ mac_arg' = m
       /\ verbose' = v
       /\ service' = svc
       /\ result' = LookupMacVendor(m, svc, RootLevel(v))

\* one call of the validator
CallIsValidMacAddress ==
  /\ call = "none"
  /\ \E s \in ValidatorArgs \cup MainArgs :
       /\ call' = "is_valid_mac_address"
       /\ mac_arg' = s
       /\ verbose' = FALSE
       /\ service' = [kind |-> "none"]
       /\ result' = [ret |-> IsValidMacAddress(s), trace |-> << >>]

Next == CallLookupMacVendor \/ RunMain

Spec == Init /\ [][Next]_vars

NextValid == CallIsValidMacAddress

SpecValid == Init /\ [][NextValid]_vars

(***************************************************************************)
(* What a trace shows.                                                     *)
(***************************************************************************)
OfKind(trace, kind) == SelectSeq(trace, LAMBDA e : e.kind = kind)

Logs(trace) == OfKind(trace, "log")

LogsAt(trace, level) == SelectSeq(Logs(trace), LAMBDA e : e.level = level)

Requests(trace) == OfKind(trace, "get")

\* the lines written to standard output
Stdout(trace) == [i \in 1..Len(OfKind(trace, "print")) |-> OfKind(trace, "print")[i].line]

\* the trace without its debug records
NonDebug(trace) == SelectSeq(trace, LAMBDA e : ~(e.kind = "log" /\ e.level = DEBUG))

\* the validator's verdict in a run of main
Validated(trace) == \E i \in 1..Len(trace) : trace[i].kind = "validate" /\ trace[i].ok

ValidationFailed(trace) ==
  \E i \in 1..Len(trace) : trace[i].kind = "validate" /\ ~trace[i].ok

(***************************************************************************)
(* The shapes the claims speak of.                                         *)
(***************************************************************************)
\* six colon-separated parts, each two hexadecimal digits
SixHexPairs(s) ==
  LET parts == Split(s, ":")
  IN /\ Len(parts) = 6
     /\ \A i \in 1..Len(parts) :
          /\ Len(parts[i]) = 2
          /\ \A k \in 1..2 : parts[i][k] \in HexChars

Is2xx(status) == 200 <= status /\ status < 300

Is4xxOr5xx(status) == 400 <= status /\ status < 600

HasKey(v, key) == v.t = "obj" /\ \E i \in 1..Len(v.keys) : v.keys[i] = key

ValueOf(v, key) == v.vals[CHOOSE i \in 1..Len(v.keys) : v.keys[i] = key]

\* the body is an object whose result is an object with a company field
HasCompany(d) == HasKey(d, RESULT) /\ HasKey(ValueOf(d, RESULT), COMPANY)

CompanyOf(d) == ValueOf(ValueOf(d, RESULT), COMPANY)

\* None, a boolean or a number: a value the membership test cannot be put to
NotIterable(v) == v.t \in {"null", "bool", "num"}

\* an array with the key among its elements, or a string with the key in it
HoldsText(v, key) ==
  \/ v.t = "list" /\ \E i \in 1..Len(v.items) : v.items[i] = JStr(key)
  \/ v.t = "str" /\ Contains(v.s, key)

\* a body without result.company on which the extraction raises TypeError
\* instead of answering "not found"
RaisesOnShape(d) ==
  /\ Truthy(d)
  /\ \/ NotIterable(d)
     \/ HoldsText(d, RESULT)
     \/ /\ HasKey(d, RESULT)
        /\ \/ NotIterable(ValueOf(d, RESULT))
           \/ HoldsText(ValueOf(d, RESULT), COMPANY)

IsResponse(svc) == svc.kind = "response"

\* the 2xx response with the body {"result": {}}
NotFoundService ==
  [kind |-> "response", status |-> 200,
   body |-> [valid |-> TRUE, data |-> JObj(<<RESULT>>, <<JObj(<<>>, <<>>)>>),
             decodeError |-> ""]]

MainRun == call = "main"

LookupCall == call = "lookup_mac_vendor"

(***************************************************************************)
(* C1 to C10                                                               *)
(***************************************************************************)
\* C1: is_valid_mac_address(s) is true if and only if s splits on ':' into
\* exactly six parts, each of exactly two hexadecimal digits of either case.
C1_ValidIffSixHexPairs ==
  call = "is_valid_mac_address" => (result.ret <=> SixHexPairs(mac_arg))

\* C2: a run of main whose trimmed address fails validation logs exactly one
\* error record, ends with exit status 1, writes nothing to standard output,
\* never calls the resolver and sends no request: the error record is the last
\* thing the run does.
C2_RejectedRunExitsOne ==
  (call = "main" /\ ValidationFailed(result.trace)) =>
    /\ result.exit = 1
    /\ Len(LogsAt(result.trace, ERROR)) = 1
    /\ Stdout(result.trace) = << >>
    /\ OfKind(result.trace, "lookup") = << >>
    /\ Requests(result.trace) = << >>
    /\ result.trace[Len(result.trace)].kind = "log"
    /\ result.trace[Len(result.trace)].level = ERROR

\* C2, witness: the padded argument " not-a-mac " was rejected with status 1.
C2_Witness ==
  /\ MainRun
  /\ mac_arg # NotAMac
  /\ Strip(mac_arg) = NotAMac
  /\ ValidationFailed(result.trace)
  /\ result.exit = 1

C4_VendorPrinted ==
  ( /\ MainRun
    /\ SixHexPairs(mac_arg)
    /\ IsResponse(service)
    /\ Is2xx(service.status)
    /\ service.body.valid
    /\ HasCompany(service.body.data)
    /\ CompanyOf(service.body.data).t = "str" ) =>
    /\ LookupMacVendor(Strip(mac_arg), service, RootLevel(verbose)).ret
         = CompanyOf(service.body.data)
    /\ Stdout(result.trace) = << VendorPrefix \o CompanyOf(service.body.data).s >>
    /\ result.exit = 0

\* C5, as claimed: for every response whose status is not 2xx the resolver
\* logs at error severity, returns no vendor name, and returns a value that
\* differs from the one it returns for a 2xx response without result.company;
\* main then prints "Vendor information not found." and ends with status 0.
C5_Non2xxIsDistinctFailure ==
  /\ (LookupCall /\ IsResponse(service) /\ ~Is2xx(service.status)) =>
       /\ result.raised = ""
       /\ Len(LogsAt(result.trace, ERROR)) = 1
       /\ result.ret = PyNone
       /\ result.ret # LookupMacVendor(mac_arg, NotFoundService, RootLevel(verbose)).ret
  /\ ( /\ MainRun
       /\ SixHexPairs(Strip(mac_arg))
       /\ IsResponse(service)
       /\ ~Is2xx(service.status) ) =>
       /\ Stdout(result.trace) = << NotFoundLine >>
       /\ result.exit = 0

\* C5, amended: for every response with a 4xx or 5xx status the resolver logs
\* exactly one error record and no warning and returns None, which is also the
\* value it returns for a 2xx response without result.company; a response with
\* any other status (1xx, 3xx) is handled exactly as the same body with status
\* 200.
C5_ClientOrServerErrorReturnsNone ==
  (LookupCall /\ IsResponse(service)) =>
    IF Is4xxOr5xx(service.status)
    THEN /\ result.raised = ""
         /\ result.ret = PyNone
         /\ Len(LogsAt(result.trace, ERROR)) = 1
         /\ Len(LogsAt(result.trace, WARNING)) = 0
         /\ result.ret = LookupMacVendor(mac_arg, NotFoundService, RootLevel(verbose)).ret
    ELSE result = LookupMacVendor(mac_arg, [service EXCEPT !.status = 200],
                                  RootLevel(verbose))

\* C5, witness: a 503 response made the resolver log one error and return None.
C5_Witness ==
  /\ LookupCall
  /\ IsResponse(service)
  /\ service.status = 503
  /\ result.ret = PyNone
  /\ Len(LogsAt(result.trace, ERROR)) = 1

\* C6, as claimed: for every 2xx response, a body that is valid JSON of any
\* shape without result.company makes the resolver log exactly one warning and
\* no error, a body that is not valid JSON makes it log exactly one error and
\* no warning, and in both cases it returns no vendor name.
C6_MissingFieldWarns ==
  (LookupCall /\ IsResponse(service) /\ Is2xx(service.status)) =>
    IF service.body.valid
    THEN ~HasCompany(service.body.data) =>
           /\ Len(LogsAt(result.trace, WARNING)) = 1
           /\ Len(LogsAt(result.trace, ERROR)) = 0
           /\ result.ret = PyNone
    ELSE /\ Len(LogsAt(result.trace, ERROR)) = 1
         /\ Len(LogsAt(result.trace, WARNING)) = 0
         /\ result.ret = PyNone

\* C6, amended: for every 2xx response, a body that is valid JSON without
\* result.company makes the resolver log exactly one warning and no error,
\* unless the extraction raises TypeError on it (the body is a non-zero number
\* or true, or an array or string that holds "result", or its result is null,
\* a boolean or a number, or an array or string that holds "company"): then it
\* logs exactly one error and no warning, as it does for a body that is not
\* valid JSON; in all these cases it returns None.
C6_SchemaErrorSeverity ==
  (LookupCall /\ IsResponse(service) /\ Is2xx(service.status)) =>
    IF service.body.valid /\ ~RaisesOnShape(service.body.data)
    THEN ~HasCompany(service.body.data) =>
           /\ Len(LogsAt(result.trace, WARNING)) = 1
           /\ Len(LogsAt(result.trace, ERROR)) = 0
           /\ result.ret = PyNone
           /\ result.raised = ""
    ELSE /\ Len(LogsAt(result.trace, ERROR)) = 1
         /\ Len(LogsAt(result.trace, WARNING)) = 0
         /\ result.ret = PyNone
         /\ result.raised = ""

\* C6, witness: the body {"result": null} of a 200 response made the resolver
\* log one error and no warning.
C6_Witness ==
  /\ LookupCall
  /\ IsResponse(service)
  /\ service.status = 200
  /\ service.body.valid
  /\ service.body.data = JObj(<<RESULT>>, <<JNull>>)
  /\ Len(LogsAt(result.trace, ERROR)) = 1
  /\ Len(LogsAt(result.trace, WARNING)) = 0
  /\ result.ret = PyNone

\* no exception leaves lookup_mac_vendor
ResolverNeverRaises == LookupCall => result.raised = ""

C8_VerboseOnlyAddsDebug ==
  /\ call = "main" =>
       LET other == Main(mac_arg, ~verbose, service)
       IN /\ Stdout(result.trace) = Stdout(other.trace)
          /\ result.exit = other.exit
          /\ Requests(result.trace) = Requests(other.trace)
          /\ NonDebug(result.trace) = NonDebug(other.trace)
          /\ ~verbose => LogsAt(result.trace, DEBUG) = << >>
  /\ LookupCall =>
       LET other == LookupMacVendor(mac_arg, service, RootLevel(~verbose))
       IN /\ result.ret = other.ret
          /\ result.raised = other.raised
          /\ Requests(result.trace) = Requests(other.trace)
          /\ NonDebug(result.trace) = NonDebug(other.trace)
          /\ ~verbose => LogsAt(result.trace, DEBUG) = << >>

\* C8, witness: a run with the flag emitted a debug record, which the same run
\* without the flag does not emit.
C8_Witness ==
  /\ MainRun
  /\ verbose
  /\ LogsAt(result.trace, DEBUG) # << >>
  /\ LogsAt(Main(mac_arg, FALSE, service).trace, DEBUG) = << >>

\* the resolver sends exactly one request per call, whatever comes back
ResolverSendsOneRequest == LookupCall => Len(Requests(result.trace)) = 1

C10_TrimmedValidAddressReachesLookup ==
  MainRun =>
    /\ \A i \in 1..Len(result.trace) :
         /\ result.trace[i].kind = "lookup" =>
              /\ result.trace[i].mac = Strip(mac_arg)
              /\ SixHexPairs(result.trace[i].mac)
         /\ result.trace[i].kind = "get" =>
              result.trace[i].url = FormatUrl(Strip(mac_arg))
         /\ result.trace[i].kind = "validate" =>
              result.trace[i].mac = Strip(mac_arg)
    /\ SixHexPairs(Strip(mac_arg)) =>
         /\ Validated(result.trace)
         /\ OfKind(result.trace, "lookup") # << >>

====
